---- MODULE Spec2Model ----
(***************************************************************************)
(* qwish: yearly event notifications.  The model covers the delivery path: *)
(* the scheduler sweep, the greeter queue with its dead-letter queue, the  *)
(* sender's three-phase protocol on the event record, the DLQ processor    *)
(* and the health check's stuck-event promotion.                           *)
(*                                                                         *)
(* Time is the number of milliseconds since the start of the model's first *)
(* calendar year; a calendar year is YearTicks ticks long.  Instants that  *)
(* the code writes and never reads back (markedFailedAt,                   *)
(* sendingCompletedAt, webhookDeliveredAt) are kept as present/absent;     *)
(* updatedAt, written by every update and read by none, is left out.       *)
(***************************************************************************)
EXTENDS Integers, Sequences, FiniteSets, Bags, TLC

VARIABLES
    now,          \* the wall clock, in ms
    webhookUp,    \* whether the webhook answers 200
    store,        \* the event items of the table, by event
    mainQ,        \* GreeterQueue: bag of visible messages
    dlq,          \* GreeterDLQ: bag of messages
    dedupAt,      \* the queue's deduplication ids and when each was accepted
    pc,           \* per sender invocation: where it stands in the handler
    msg,          \* per sender invocation: the record being processed
    cur,          \* per sender invocation: currentLastSentYear, as it read it
    resp,         \* per sender invocation: the webhook's response status
    hc,           \* the health check: stuck records read and not yet written
    ok200,        \* history: POSTs answered 200, per (event, yearNow)
    doneYear,     \* history: latest year a completion was written for, per event
    lost,         \* history: (event, yearNow) whose completion write failed after a 200
    run,          \* history of the sequential harness: the latest sender run
    cal,          \* the calendar model: one event's notifyUtc from creation on
    sweep,        \* the sweep model: one scheduler invocation over the index
    sweepLog,     \* history: the latest two scheduler invocations on the queue
    redrive,      \* the redrive model: one DLQ processor invocation
    monitor,      \* the monitor model: one health check invocation
    idem,         \* the key model: the keys of two messages, as enqueued and as posted
    adds          \* the add model: two addUserEvent requests for one user and type

vars == <<now, webhookUp, store, mainQ, dlq, dedupAt, pc, msg, cur, resp,
          hc, ok200, doneYear, lost, run, cal, sweep, sweepLog, redrive, monitor,
          idem, adds>>

\* the variables of the delivery path
main == <<now, webhookUp, store, mainQ, dlq, dedupAt, pc, msg, cur, resp,
          hc, ok200, doneYear, lost, run>>

-----------------------------------------------------------------------------
(* Bounds of the model *)

TickMinutes == 5      \* the clock advances in steps of this many minutes
YearTicks == 3        \* ticks per calendar year of the model
MaxTicks == 3         \* the clock stops after this many ticks
NumSenders == 2       \* concurrent sender invocations
MaxMsgs == 2          \* messages in the two queues and in flight together
PostCap == 2          \* the POST counters saturate here
CalYearLen == 4       \* calendar model: units per calendar year
CalYears == 2         \* calendar model: years the clock runs on after the first
MaxOffset == 1        \* calendar model: timezone offsets, in units either way
MaxItems == 3         \* sweep model: items of the index with notifyUtc <= now
PageLimit == 2        \* sweep model: the Limit of the due query
MaxDlq == 11          \* redrive model: messages in the DLQ
MaxMonItems == 3      \* monitor model: event items of the table

(* Program and transport constants *)

STUCK_TIMEOUT_MS == 5 * 60 * 1000
HC_STUCK_TIMEOUT_MS == 10 * 60 * 1000
DEDUP_WINDOW_MS == 5 * 60 * 1000
MaxReceiveCount == 3
DLQ_BATCH == 10

MinuteMs == 60 * 1000
TickMs == TickMinutes * MinuteMs
YearMs == YearTicks * TickMs
MaxTime == MaxTicks * TickMs

NoTime == 0 - 1

\* lastSentYear is not an attribute of the item
NoYear == 0 - 1

Events == {"u1#birthday"}
Workers == 1..NumSenders

\* new Date().getFullYear(); the first year of the model is year 1, so that
\* lastSentYear = 0 is "never sent" as in the code
YearOf(t) == 1 + (t \div YearMs)
Years == 1..YearOf(MaxTime)

\* when in its year the event fires (date, notifyLocalTime and timezone)
EventOffset(e) == 0

\* dayjs(eventDate).year(y) at notifyLocalTime in the user's timezone, as UTC
NotifyUtcIn(e, y) == (y - 1) * YearMs + EventOffset(e)

Min(a, b) == IF a < b THEN a ELSE b

-----------------------------------------------------------------------------
(* The event item *)

NewEvent(e, status) ==
    [ exists |-> TRUE,
      lastSentYear |-> 0,
      sendingStatus |-> status,
      sendingAttemptedAt |-> NoTime,
      notifyUtc |-> NotifyUtcIn(e, 1),
      webhookResponseCode |-> 0,
      failureReason |-> "none",
      markedFailedAt |-> FALSE,
      sendingCompletedAt |-> FALSE ]

\* no item under the key
NoItem ==
    [ exists |-> FALSE,
      lastSentYear |-> NoYear,
      sendingStatus |-> "absent",
      sendingAttemptedAt |-> NoTime,
      notifyUtc |-> NoTime,
      webhookResponseCode |-> 0,
      failureReason |-> "none",
      markedFailedAt |-> FALSE,
      sendingCompletedAt |-> FALSE ]

\* an UpdateCommand without a ConditionExpression creates the item when the
\* key holds none, with the attributes it sets and no others
Upsert(item) == [item EXCEPT !.exists = TRUE]

\* currentEvent.lastSentYear ?? 0
LastSentYearOf(item) == IF item.lastSentYear = NoYear THEN 0 ELSE item.lastSentYear

NoMsg == [ev |-> "none", yearNow |-> 0, rc |-> 0]

QMsg(e, y) == [ev |-> e, yearNow |-> y, rc |-> 0]
DlqMsg(m) == [ev |-> m.ev, yearNow |-> m.yearNow]
Key(e, y) == <<e, y>>
Keys == Events \X Years

-----------------------------------------------------------------------------
(* The queue transport (SQS FIFO with a redrive policy).  The sources set   *)
(* no visibility timeout, so a record that was not deleted may come back at *)
(* any time, and any visible record may be handed to a free invocation.     *)

InSystem == BagCardinality(mainQ) + BagCardinality(dlq)
            + Cardinality({w \in Workers : pc[w] # "idle"})

\* (mutation) the queue deduplicates nothing
DedupHitNever(d, k) == FALSE

\* a send whose MessageDeduplicationId was accepted less than the window ago
\* is acknowledged by the queue and not delivered
DedupHit(d, k) == d[k] # NoTime /\ now - d[k] < DEDUP_WINDOW_MS

SendToMainQ(q, d, m) ==
    IF DedupHit(d, Key(m.ev, m.yearNow)) THEN q ELSE q (+) SetToBag({m})

SendToMainD(d, m) ==
    IF DedupHit(d, Key(m.ev, m.yearNow)) THEN d
    ELSE [d EXCEPT ![Key(m.ev, m.yearNow)] = now]

\* the handler returned: the record is deleted from the queue
Ack(w) ==
    /\ msg' = [msg EXCEPT ![w] = NoMsg]
    /\ UNCHANGED <<mainQ, dlq>>

\* the handler threw or died: the record becomes visible again, or moves to
\* the dead-letter queue once it was received MaxReceiveCount times
Nack(w) ==
    /\ msg' = [msg EXCEPT ![w] = NoMsg]
    /\ IF msg[w].rc >= MaxReceiveCount
       THEN /\ dlq' = dlq (+) SetToBag({DlqMsg(msg[w])})
            /\ UNCHANGED mainQ
       ELSE /\ mainQ' = mainQ (+) SetToBag({msg[w]})
            /\ UNCHANGED dlq

\* the end of a run
EndRun(w) ==
    /\ pc' = [pc EXCEPT ![w] = "idle"]
    /\ cur' = [cur EXCEPT ![w] = 0]
    /\ resp' = [resp EXCEPT ![w] = 0]

\* the error leaves the handler
Throw(w) == EndRun(w) /\ Nack(w)

\* (mutation) the skipped record raises instead of being dropped
DropRaises(w) == Throw(w)

\* `continue` on the only record of the batch: the handler returns
Drop(w) == EndRun(w) /\ Ack(w)

-----------------------------------------------------------------------------
(* The sender, one step per awaited call *)

\* the queue hands a visible record to a sender invocation
Receive(w) ==
    /\ pc[w] = "idle"
    /\ \A v \in Workers : v < w => pc[v] # "idle"
    /\ \E m \in BagToSet(mainQ) :
         /\ mainQ' = mainQ (-) SetToBag({m})
         /\ msg' = [msg EXCEPT ![w] = [m EXCEPT !.rc = m.rc + 1]]
    /\ pc' = [pc EXCEPT ![w] = "load"]
    /\ UNCHANGED <<now, webhookUp, store, dlq, dedupAt, cur, resp, hc, ok200, doneYear, lost>>

\* (mutation) the duplicate guard without its status clause
IsDuplicateAnyStatus(item, yearNow) == item.lastSentYear >= yearNow

IsDuplicate(item, yearNow) ==
    item.lastSentYear >= yearNow /\ item.sendingStatus = "completed"

\* (mutation) the record is still held at exactly the timeout
IsHeldInclusive(item, t) ==
    /\ item.sendingStatus = "sending"
    /\ item.sendingAttemptedAt # NoTime
    /\ t - item.sendingAttemptedAt <= STUCK_TIMEOUT_MS

IsHeld(item, t) ==
    /\ item.sendingStatus = "sending"
    /\ item.sendingAttemptedAt # NoTime
    /\ t - item.sendingAttemptedAt < STUCK_TIMEOUT_MS

IsStuck(item, t) ==
    /\ item.sendingStatus = "sending"
    /\ item.sendingAttemptedAt # NoTime
    /\ ~(t - item.sendingAttemptedAt < STUCK_TIMEOUT_MS)

\* (mutation) the message of a missing event raises
SkipMissingRaises(w) == Throw(w)

\* the event was deleted: the message is skipped
SkipMissing(w) == Drop(w)

\* GetCommand and the guards on what it returned
Load(w, readFails) ==
    /\ pc[w] = "load"
    /\ LET item == store[msg[w].ev]
           yearNow == msg[w].yearNow
       IN  IF readFails THEN Throw(w)
           ELSE IF ~item.exists THEN SkipMissing(w)
           ELSE IF IsDuplicate(item, yearNow) THEN Drop(w)
           ELSE IF IsHeld(item, now) THEN Drop(w)
           ELSE /\ pc' = [pc EXCEPT ![w] =
                            IF IsStuck(item, now) THEN "markStuck" ELSE "claim"]
                /\ cur' = [cur EXCEPT ![w] = LastSentYearOf(item)]
                /\ UNCHANGED <<msg, mainQ, dlq, resp>>
    /\ UNCHANGED <<now, webhookUp, store, dedupAt, hc, ok200, doneYear, lost>>

\* (mutation) the stuck record gets its reason but keeps its status
StuckKeepsStatus(item) ==
    [item EXCEPT !.markedFailedAt = TRUE,
                 !.failureReason = "Stuck in sending state - likely webhook timeout or Lambda crash"]

StuckFailed(item) ==
    [item EXCEPT !.sendingStatus = "failed",
                 !.markedFailedAt = TRUE,
                 !.failureReason = "Stuck in sending state - likely webhook timeout or Lambda crash"]

\* the stuck record is marked failed; a failed write is logged and ignored
MarkStuck(w, writeFails) ==
    /\ pc[w] = "markStuck"
    /\ store' = IF writeFails THEN store
                ELSE [store EXCEPT ![msg[w].ev] = StuckFailed(Upsert(@))]
    /\ pc' = [pc EXCEPT ![w] = "claim"]
    /\ UNCHANGED <<now, webhookUp, mainQ, dlq, dedupAt, msg, cur, resp, hc, ok200, doneYear, lost>>

\* (mutation) the condition without its status clause
ClaimConditionAnyStatus(item, currentLastSentYear) ==
    item.exists /\ item.lastSentYear = currentLastSentYear

\* (mutation) the condition refusing a failed record
ClaimConditionNoRetry(item, currentLastSentYear) ==
    /\ item.exists
    /\ item.lastSentYear = currentLastSentYear
    /\ item.sendingStatus \in {"absent", "pending"}

\* PHASE 1: the ConditionExpression of the claim
ClaimCondition(item, currentLastSentYear) ==
    /\ item.exists
    /\ item.lastSentYear = currentLastSentYear
    /\ item.sendingStatus \in {"absent", "pending", "failed"}

\* PHASE 1: the UpdateExpression of the claim
Claimed(item, e, yearNow, t) ==
    [item EXCEPT !.sendingStatus = "sending",
                 !.sendingAttemptedAt = t,
                 !.lastSentYear = yearNow,
                 !.notifyUtc = NotifyUtcIn(e, yearNow + 1)]

Claim(w, writeFails) ==
    /\ pc[w] = "claim"
    /\ LET e == msg[w].ev
           item == store[e]
       IN  IF writeFails THEN Throw(w) /\ UNCHANGED store
           ELSE IF ClaimCondition(item, cur[w])
           THEN /\ store' = [store EXCEPT ![e] = Claimed(item, e, msg[w].yearNow, now)]
                /\ pc' = [pc EXCEPT ![w] = "post"]
                /\ UNCHANGED <<msg, mainQ, dlq, cur, resp>>
           ELSE Drop(w) /\ UNCHANGED store
    /\ UNCHANGED <<now, webhookUp, dedupAt, hc, ok200, doneYear, lost>>

Bump(f, k) == [f EXCEPT ![k] = Min(@ + 1, PostCap)]

\* PHASE 2: the POST and its answer; "neterr" is fetch rejecting
Post(w, answer) ==
    /\ pc[w] = "post"
    /\ (answer = 200) <=> webhookUp
    /\ IF answer = 200
       THEN /\ ok200' = Bump(ok200, Key(msg[w].ev, msg[w].yearNow))
            /\ pc' = [pc EXCEPT ![w] = "complete"]
            /\ resp' = [resp EXCEPT ![w] = answer]
            /\ UNCHANGED <<msg, mainQ, dlq, cur>>
       ELSE IF answer = 0
       THEN Throw(w) /\ UNCHANGED ok200
       ELSE /\ pc' = [pc EXCEPT ![w] = "markFailed"]
            /\ resp' = [resp EXCEPT ![w] = answer]
            /\ UNCHANGED <<msg, mainQ, dlq, cur, ok200>>
    /\ UNCHANGED <<now, webhookUp, store, dedupAt, hc, doneYear, lost>>

Failed(item) == [item EXCEPT !.sendingStatus = "failed"]

\* the status other than 200: best-effort mark, then the error is thrown
MarkFailed(w, writeFails) ==
    /\ pc[w] = "markFailed"
    /\ store' = IF writeFails THEN store
                ELSE [store EXCEPT ![msg[w].ev] = Failed(Upsert(@))]
    /\ Throw(w)
    /\ UNCHANGED <<now, webhookUp, dedupAt, hc, ok200, doneYear, lost>>

\* (mutation) PHASE 3 records the answer and leaves the record claimable
CompletedAsFailed(item, code) ==
    [item EXCEPT !.sendingStatus = "failed",
                 !.sendingCompletedAt = TRUE,
                 !.webhookResponseCode = code]

Completed(item, code) ==
    [item EXCEPT !.sendingStatus = "completed",
                 !.sendingCompletedAt = TRUE,
                 !.webhookResponseCode = code]

\* (mutation) the completion error leaves the handler
SwallowRethrows(w) == Throw(w)

\* catch (completeError): logged, not thrown; the loop goes on
Swallow(w) == Drop(w)

\* PHASE 3: mark completed; a failed write is logged and not thrown
Complete(w, writeFails) ==
    /\ pc[w] = "complete"
    /\ IF writeFails
       THEN /\ Swallow(w)
            /\ lost' = lost \cup {Key(msg[w].ev, msg[w].yearNow)}
            /\ UNCHANGED <<store, doneYear>>
       ELSE /\ store' = [store EXCEPT ![msg[w].ev] = Completed(Upsert(@), resp[w])]
            /\ doneYear' = [doneYear EXCEPT ![msg[w].ev] =
                              IF msg[w].yearNow > @ THEN msg[w].yearNow ELSE @]
            /\ Drop(w)
            /\ UNCHANGED lost
    /\ UNCHANGED <<now, webhookUp, dedupAt, hc, ok200>>

\* the invocation dies (timeout, crash) before its next step
Crash(w) ==
    /\ pc[w] \notin {"idle"}
    /\ EndRun(w)
    /\ Nack(w)
    /\ UNCHANGED <<now, webhookUp, store, dedupAt, hc, ok200, doneYear, lost>>

-----------------------------------------------------------------------------
(* The scheduler: one sweep of the due events *)

\* the due query: KeyConditionExpression and FilterExpression
IsDue(item, nowUtc, currentYear) ==
    /\ item.exists
    /\ item.notifyUtc # NoTime
    /\ item.notifyUtc <= nowUtc
    /\ item.lastSentYear < currentYear

DueEvents == {e \in Events : IsDue(store[e], now, YearOf(now))}

\* enqueueGreeterMessage for every event of S, in the order of the page;
\* qd is the queue and its deduplication ids
RECURSIVE EnqueueAll(_, _)
EnqueueAll(S, qd) ==
    IF S = {} THEN qd
    ELSE LET e == CHOOSE x \in S : TRUE
             m == QMsg(e, YearOf(now))
         IN  EnqueueAll(S \ {e},
                        <<SendToMainQ(qd[1], qd[2], m), SendToMainD(qd[2], m)>>)

\* (mutation) the sweep records the year on the events it enqueued
SweptMarksSent(st, sent) ==
    [e \in Events |-> IF e \in sent
                      THEN [st[e] EXCEPT !.lastSentYear = YearOf(now)]
                      ELSE st[e]]

\* the table after the sweep: the scheduler sends Query and Get commands
\* only
Swept(st, sent) == st

\* `sent` are the due events whose lookup and enqueue succeeded
Scheduler(sent) ==
    /\ sent # {}
    /\ sent \subseteq DueEvents
    /\ InSystem + Cardinality(sent) <= MaxMsgs
    /\ LET qd == EnqueueAll(sent, <<mainQ, dedupAt>>)
       IN  /\ mainQ' = qd[1]
           /\ dedupAt' = qd[2]
    /\ store' = Swept(store, sent)
    /\ UNCHANGED <<now, webhookUp, dlq, pc, msg, cur, resp, hc, ok200, doneYear, lost>>

-----------------------------------------------------------------------------
(* The DLQ processor *)

\* redriveMessages: each received message is sent to the main queue under its
\* own MessageDeduplicationId and then deleted from the DLQ
RECURSIVE RedriveAll(_, _)
RedriveAll(b, qd) ==
    IF b = EmptyBag THEN qd
    ELSE LET m == CHOOSE x \in BagToSet(b) : TRUE
             q == QMsg(m.ev, m.yearNow)
         IN  RedriveAll(b (-) SetToBag({m}),
                        <<SendToMainQ(qd[1], qd[2], q), SendToMainD(qd[2], q)>>)

DlqProcessor ==
    /\ BagCardinality(dlq) > 0
    /\ webhookUp
    /\ BagCardinality(dlq) <= DLQ_BATCH
    /\ LET qd == RedriveAll(dlq, <<mainQ, dedupAt>>)
       IN  /\ mainQ' = qd[1]
           /\ dedupAt' = qd[2]
    /\ dlq' = EmptyBag
    /\ UNCHANGED <<now, webhookUp, store, pc, msg, cur, resp, hc, ok200, doneYear, lost>>

-----------------------------------------------------------------------------
(* The health check: the stuck query, then one write per stuck record *)

DAY_MS == 24 * 60 * 60 * 1000

\* CHECK 1: the KeyConditionExpression and the FilterExpression of the
\* missed query
MissedFilter(item, nowMs, currentYear) ==
    /\ item.exists
    /\ item.notifyUtc # NoTime
    /\ item.notifyUtc >= nowMs - DAY_MS
    /\ item.notifyUtc <= nowMs
    /\ (item.lastSentYear = NoYear \/ item.lastSentYear < currentYear)
    /\ item.sendingStatus \notin {"completed"}

\* missedEvents of a health check that runs now
MissedEvents == {e \in Events : MissedFilter(store[e], now, YearOf(now))}

\* the FilterExpression of the stuck query
StuckFilter(item) ==
    /\ item.exists
    /\ item.sendingStatus = "sending"
    /\ item.sendingAttemptedAt # NoTime

\* the stuck query: the events in sending state that carry an attempt time
StuckQuery ==
    {e \in Events : store[e].notifyUtc # NoTime /\ StuckFilter(store[e])}

\* (mutation) ten minutes are enough
HcTimedOutInclusive(nowMs, attemptedAt) == nowMs - attemptedAt >= HC_STUCK_TIMEOUT_MS

HcTimedOut(nowMs, attemptedAt) == nowMs - attemptedAt > HC_STUCK_TIMEOUT_MS

\* the records of the page the loop will write to, decided on what was read
HcToMark(nowMs) ==
    {e \in StuckQuery : HcTimedOut(nowMs, store[e].sendingAttemptedAt)}

\* a run that finds nothing to promote changes nothing
HcScan ==
    /\ hc = {}
    /\ HcToMark(now) # {}
    /\ hc' = HcToMark(now)
    /\ UNCHANGED <<now, webhookUp, store, mainQ, dlq, dedupAt, pc, msg, cur, resp, ok200, doneYear, lost>>

HcFailed(item) ==
    [item EXCEPT !.sendingStatus = "failed",
                 !.markedFailedAt = TRUE,
                 !.failureReason = "Stuck in sending state detected by health check - likely webhook timeout or Lambda crash"]

\* the unconditional update of one stuck record; a failed write is counted
\* and the loop goes on
HcMark(writeFails) ==
    /\ hc # {}
    /\ \E e \in hc :
         /\ store' = IF writeFails THEN store
                     ELSE [store EXCEPT ![e] = HcFailed(Upsert(@))]
         /\ hc' = hc \ {e}
    /\ UNCHANGED <<now, webhookUp, mainQ, dlq, dedupAt, pc, msg, cur, resp, ok200, doneYear, lost>>

-----------------------------------------------------------------------------
(* The environment *)

\* deduplication ids older than the window are forgotten
Expire(d, t) ==
    [k \in Keys |-> IF d[k] # NoTime /\ t - d[k] < DEDUP_WINDOW_MS
                    THEN d[k] ELSE NoTime]

Tick ==
    /\ now + TickMs <= MaxTime
    /\ now' = now + TickMs
    /\ dedupAt' = Expire(dedupAt, now + TickMs)
    /\ UNCHANGED <<webhookUp, store, mainQ, dlq, pc, msg, cur, resp, hc, ok200, doneYear, lost>>

WebhookFlip ==
    /\ webhookUp' = ~webhookUp
    /\ UNCHANGED <<now, store, mainQ, dlq, dedupAt, pc, msg, cur, resp, hc, ok200, doneYear, lost>>

-----------------------------------------------------------------------------
(* The log of a sender run, kept for the sequential harness *)

NoFirst == [clean |-> FALSE, posts |-> 0, after |-> NewEvent("none", "absent")]

RunEntry(m, again, first) ==
    [ ev |-> m.ev,
      yearNow |-> m.yearNow,
      t |-> now,
      up |-> webhookUp,
      before |-> store[m.ev],
      okBefore |-> ok200[Key(m.ev, m.yearNow)],
      marked |-> FALSE,
      claimed |-> FALSE,
      posts |-> 0,
      oks |-> 0,
      fault |-> FALSE,
      outcome |-> "running",
      after |-> store[m.ev],
      okAfter |-> ok200[Key(m.ev, m.yearNow)],
      again |-> again,
      first |-> first ]

NoRun ==
    [ ev |-> "none", yearNow |-> 0, t |-> 0, up |-> FALSE,
      before |-> NewEvent("none", "absent"), okBefore |-> 0,
      marked |-> FALSE, claimed |-> FALSE, posts |-> 0, oks |-> 0,
      fault |-> FALSE, outcome |-> "none",
      after |-> NewEvent("none", "absent"), okAfter |-> 0,
      again |-> FALSE, first |-> NoFirst ]

\* the models of single invocations, at rest
NoCal == [phase |-> "none"]
NoSweep == [phase |-> "none"]
NoRedrive == [phase |-> "none"]
NoMonitor == [phase |-> "none"]
NoIdem == [phase |-> "none"]
NoAdds == [phase |-> "none"]
NoLog == <<>>

-----------------------------------------------------------------------------
(* The system with concurrent sender invocations *)

Init ==
    /\ now = 0
    /\ webhookUp \in BOOLEAN
    /\ store \in [Events -> {NewEvent(e, s) : e \in Events, s \in {"pending", "absent"}}]
    /\ mainQ = EmptyBag
    /\ dlq = EmptyBag
    /\ dedupAt = [k \in Keys |-> NoTime]
    /\ pc = [w \in Workers |-> "idle"]
    /\ msg = [w \in Workers |-> NoMsg]
    /\ cur = [w \in Workers |-> 0]
    /\ resp = [w \in Workers |-> 0]
    /\ hc = {}
    /\ ok200 = [k \in Keys |-> 0]
    /\ doneYear = [e \in Events |-> 0]
    /\ lost = {}
    /\ run = NoRun
    /\ cal = NoCal
    /\ sweep = NoSweep
    /\ sweepLog = NoLog
    /\ redrive = NoRedrive
    /\ monitor = NoMonitor
    /\ idem = NoIdem
    /\ adds = NoAdds

Next ==
    \/ Tick /\ UNCHANGED <<run, cal, sweep, sweepLog, redrive, monitor, idem, adds>>
    \/ WebhookFlip /\ UNCHANGED <<run, cal, sweep, sweepLog, redrive, monitor, idem, adds>>
    \/ \E sent \in SUBSET Events : Scheduler(sent) /\ UNCHANGED <<run, cal, sweep, sweepLog, redrive, monitor, idem, adds>>
    \/ DlqProcessor /\ UNCHANGED <<run, cal, sweep, sweepLog, redrive, monitor, idem, adds>>
    \/ HcScan /\ UNCHANGED <<run, cal, sweep, sweepLog, redrive, monitor, idem, adds>>
    \/ \E f \in BOOLEAN : HcMark(f) /\ UNCHANGED <<run, cal, sweep, sweepLog, redrive, monitor, idem, adds>>
    \/ \E w \in Workers : Receive(w) /\ UNCHANGED <<run, cal, sweep, sweepLog, redrive, monitor, idem, adds>>
    \/ \E w \in Workers, f \in BOOLEAN : Load(w, f) /\ UNCHANGED <<run, cal, sweep, sweepLog, redrive, monitor, idem, adds>>
    \/ \E w \in Workers, f \in BOOLEAN : MarkStuck(w, f) /\ UNCHANGED <<run, cal, sweep, sweepLog, redrive, monitor, idem, adds>>
    \/ \E w \in Workers, f \in BOOLEAN : Claim(w, f) /\ UNCHANGED <<run, cal, sweep, sweepLog, redrive, monitor, idem, adds>>
    \/ \E w \in Workers, a \in {200, 503, 0} : Post(w, a) /\ UNCHANGED <<run, cal, sweep, sweepLog, redrive, monitor, idem, adds>>
    \/ \E w \in Workers, f \in BOOLEAN : MarkFailed(w, f) /\ UNCHANGED <<run, cal, sweep, sweepLog, redrive, monitor, idem, adds>>
    \/ \E w \in Workers, f \in BOOLEAN : Complete(w, f) /\ UNCHANGED <<run, cal, sweep, sweepLog, redrive, monitor, idem, adds>>
    \/ \E w \in Workers : Crash(w) /\ UNCHANGED <<run, cal, sweep, sweepLog, redrive, monitor, idem, adds>>

Spec == Init /\ [][Next]_vars

-----------------------------------------------------------------------------
(* The sequential harness: one sender invocation at a time, as the tests    *)
(* drive the handler; the scheduler, the DLQ processor, the health check,   *)
(* the clock and the webhook act between runs.  `run` logs the latest run   *)
(* and, when the harness invoked the handler twice, what the first run did. *)

\* the run found the event to deliver: the record is neither completed
\* nor held by a live sender
Deliverable(item, t) ==
    /\ item.exists
    /\ item.sendingStatus # "completed"
    /\ ~(item.sendingStatus = "sending" /\ item.sendingAttemptedAt # NoTime
         /\ t - item.sendingAttemptedAt < STUCK_TIMEOUT_MS)

\* what the second invocation keeps of the first
FirstOf(r) ==
    [ clean |-> /\ r.outcome = "returned" /\ ~r.fault /\ r.up
                /\ Deliverable(r.before, r.t),
      posts |-> r.posts,
      after |-> r.after ]

\* what the step of the running invocation did, read off the step itself
LogStep(fault) ==
    LET e == msg[1].ev
        k == Key(e, msg[1].yearNow)
        answered == pc[1] = "post" /\ pc'[1] \in {"complete", "markFailed"}
    IN  run' = [run EXCEPT
                  !.fault = @ \/ fault,
                  !.marked = @ \/ (pc[1] = "markStuck" /\ store'[e] # store[e]),
                  !.claimed = @ \/ (pc[1] = "claim" /\ pc'[1] = "post"),
                  !.posts = IF answered THEN @ + 1 ELSE @,
                  !.oks = IF answered /\ pc'[1] = "complete" THEN @ + 1 ELSE @,
                  !.outcome = IF pc'[1] # "idle" THEN "running"
                              ELSE IF mainQ' = mainQ /\ dlq' = dlq
                                   THEN "returned" ELSE "threw",
                  !.after = store'[e],
                  !.okAfter = ok200'[k]]

SeqReceive ==
    /\ Receive(1)
    /\ run' = RunEntry(msg'[1], FALSE, NoFirst)
    /\ UNCHANGED <<cal, sweep, sweepLog, redrive, monitor, idem, adds>>

\* the harness invokes the handler again with the record of the run that
\* has just returned
SeqReinvoke ==
    /\ pc[1] = "idle"
    /\ run.outcome = "returned"
    /\ ~run.again
    /\ run.after = store[run.ev]
    /\ InSystem < MaxMsgs
    /\ msg' = [msg EXCEPT ![1] = [ev |-> run.ev, yearNow |-> run.yearNow, rc |-> 1]]
    /\ pc' = [pc EXCEPT ![1] = "load"]
    /\ run' = RunEntry(msg'[1], TRUE, FirstOf(run))
    /\ UNCHANGED <<cal, sweep, sweepLog, redrive, monitor, idem, adds, now, webhookUp, store, mainQ, dlq, dedupAt, cur, resp, hc, ok200, doneYear, lost>>

SeqLoad(f) == Load(1, f) /\ LogStep(f) /\ UNCHANGED <<cal, sweep, sweepLog, redrive, monitor, idem, adds>>
SeqMarkStuck(f) == MarkStuck(1, f) /\ LogStep(f) /\ UNCHANGED <<cal, sweep, sweepLog, redrive, monitor, idem, adds>>
SeqClaim(f) == Claim(1, f) /\ LogStep(f) /\ UNCHANGED <<cal, sweep, sweepLog, redrive, monitor, idem, adds>>
SeqPost(a) == Post(1, a) /\ LogStep(FALSE) /\ UNCHANGED <<cal, sweep, sweepLog, redrive, monitor, idem, adds>>
SeqMarkFailed(f) == MarkFailed(1, f) /\ LogStep(f) /\ UNCHANGED <<cal, sweep, sweepLog, redrive, monitor, idem, adds>>
SeqComplete(f) == Complete(1, f) /\ LogStep(f) /\ UNCHANGED <<cal, sweep, sweepLog, redrive, monitor, idem, adds>>
SeqCrash == Crash(1) /\ LogStep(TRUE) /\ UNCHANGED <<cal, sweep, sweepLog, redrive, monitor, idem, adds>>

Between(A) == pc[1] = "idle" /\ A /\ UNCHANGED <<run, cal, sweep, sweepLog, redrive, monitor, idem, adds>>

SeqNext ==
    \/ Between(Tick)
    \/ Between(WebhookFlip)
    \/ \E sent \in SUBSET Events : Between(Scheduler(sent))
    \/ Between(DlqProcessor)
    \/ Between(HcScan)
    \/ \E f \in BOOLEAN : Between(HcMark(f))
    \/ SeqReceive
    \/ SeqReinvoke
    \/ \E f \in BOOLEAN : SeqLoad(f)
    \/ \E f \in BOOLEAN : SeqMarkStuck(f)
    \/ \E f \in BOOLEAN : SeqClaim(f)
    \/ \E a \in {200, 503, 0} : SeqPost(a)
    \/ \E f \in BOOLEAN : SeqMarkFailed(f)
    \/ \E f \in BOOLEAN : SeqComplete(f)
    \/ SeqCrash

SeqSpec == Init /\ [][SeqNext]_vars

-----------------------------------------------------------------------------
(* The sequential harness with deleteUser: the user and its events may be   *)
(* deleted at any moment, also in the middle of a sender run.               *)

\* deleteUser: every item under the user's key is deleted
DeleteUser(e) ==
    /\ store[e].exists
    /\ store' = [store EXCEPT ![e] = NoItem]
    /\ UNCHANGED <<now, webhookUp, mainQ, dlq, dedupAt, pc, msg, cur, resp, hc, ok200, doneYear, lost>>

DelNext ==
    \/ SeqNext
    \/ \E e \in Events : DeleteUser(e) /\ UNCHANGED <<run, cal, sweep, sweepLog, redrive, monitor, idem, adds>>

DelSpec == Init /\ [][DelNext]_vars

-----------------------------------------------------------------------------
(* The calendar model: the notifyUtc of one event from createUser, through  *)
(* the sweep that finds it due, to the claim that advances it.  Instants    *)
(* are counted in calendar units, CalYearLen of them to a calendar year; a  *)
(* timezone is its offset from UTC in units, and the event's date and       *)
(* notifyLocalTime are its position within the local year.  The process     *)
(* runs in UTC, so that year() and getFullYear() give the UTC year.         *)

Offsets == (0 - MaxOffset)..MaxOffset
Positions == 0..(CalYearLen - 1)
CalMaxTime == (CalYears + 1) * CalYearLen - 1

\* dayjs().year(), new Date().getFullYear()
UtcYear(t) == t \div CalYearLen

\* the calendar year the user's local clock shows at the instant
LocalYear(t, off) == (t + off) \div CalYearLen

\* dayjs.tz(`${date in year y}T${notifyLocalTime}`, timezone).utc()
LocalToUtc(y, pos, off) == y * CalYearLen + pos - off

computeNotifyUtc(pos, off, referenceTime) ==
    LET year == UtcYear(referenceTime)
        notifyUtc == LocalToUtc(year, pos, off)
    IN  IF notifyUtc < referenceTime
        THEN LocalToUtc(year + 1, pos, off)
        ELSE notifyUtc

\* the sender's nextNotifyUtc
nextNotifyUtc(pos, off, yearNow) == LocalToUtc(yearNow + 1, pos, off)

\* the delivery path at rest
AtRest ==
    /\ now = 0
    /\ webhookUp = TRUE
    /\ store = [e \in Events |-> NewEvent(e, "pending")]
    /\ mainQ = EmptyBag
    /\ dlq = EmptyBag
    /\ dedupAt = [k \in Keys |-> NoTime]
    /\ pc = [w \in Workers |-> "idle"]
    /\ msg = [w \in Workers |-> NoMsg]
    /\ cur = [w \in Workers |-> 0]
    /\ resp = [w \in Workers |-> 0]
    /\ hc = {}
    /\ ok200 = [k \in Keys |-> 0]
    /\ doneYear = [e \in Events |-> 0]
    /\ lost = {}
    /\ run = NoRun

\* a createUser request arrives in the first year of the model
CalInit ==
    /\ AtRest
    /\ sweep = NoSweep
    /\ sweepLog = NoLog
    /\ redrive = NoRedrive
    /\ monitor = NoMonitor
    /\ idem = NoIdem
    /\ adds = NoAdds
    /\ cal \in [ phase : {"request"},
                  pos : Positions,
                  off : Offsets,
                  t : CalYearLen..(2 * CalYearLen - 1),
                  createdAt : {NoTime},
                  first : {NoTime},
                  notifyUtc : {NoTime},
                  lastSentYear : {0},
                  deliveredAt : {NoTime} ]

\* createUser: the event is stored with its first notifyUtc
CalCreate ==
    /\ cal.phase = "request"
    /\ cal' = [cal EXCEPT !.phase = "pending",
                           !.createdAt = cal.t,
                           !.first = computeNotifyUtc(cal.pos, cal.off, cal.t),
                           !.notifyUtc = computeNotifyUtc(cal.pos, cal.off, cal.t)]

CalTick ==
    /\ cal.phase \in {"pending", "completed"}
    /\ cal.t < CalMaxTime
    /\ cal' = [cal EXCEPT !.t = cal.t + 1]

\* the sweep finds the event due and enqueues it with yearNow; the sender
\* claims it, is answered 200 and completes, all at the instant cal.t
CalDeliver ==
    /\ cal.phase = "pending"
    /\ cal.notifyUtc <= cal.t
    /\ cal.lastSentYear < UtcYear(cal.t)
    /\ LET yearNow == UtcYear(cal.t)
       IN  cal' = [cal EXCEPT !.phase = "completed",
                              !.lastSentYear = yearNow,
                              !.notifyUtc = nextNotifyUtc(cal.pos, cal.off, yearNow),
                              !.deliveredAt = cal.t]

CalNext ==
    \/ CalCreate /\ UNCHANGED <<main, sweep, sweepLog, redrive, monitor, idem, adds>>
    \/ CalTick /\ UNCHANGED <<main, sweep, sweepLog, redrive, monitor, idem, adds>>
    \/ CalDeliver /\ UNCHANGED <<main, sweep, sweepLog, redrive, monitor, idem, adds>>

CalSpec == CalInit /\ [][CalNext]_vars

-----------------------------------------------------------------------------
(* The sweep model: one scheduler invocation over the pages of the due      *)
(* query.  The index is the sequence of the event items with notifyUtc <=   *)
(* now, in key order; an item is `unsent` when the FilterExpression passes  *)
(* and `hasUser` when the user's METADATA item exists.                      *)

IndexItems == [unsent : BOOLEAN, hasUser : BOOLEAN]
Indexes == UNION {[1..n -> IndexItems] : n \in 0..MaxItems}

\* the last item the query reads after ExclusiveStartKey: Limit counts the
\* items read, before the filter
PageEnd(index, key) == Min(key + PageLimit, Len(index))

\* result.Items: the items read that pass the filter
PageItems(index, key) ==
    {i \in (key + 1)..PageEnd(index, key) : index[i].unsent}

\* result.LastEvaluatedKey (0: undefined): set when the query stopped at the
\* Limit; a query that stopped on the last item of the range may or may not
\* return a key
LastKeys(index, key) ==
    IF key + PageLimit < Len(index) THEN {key + PageLimit}
    ELSE IF key + PageLimit = Len(index) THEN {key + PageLimit, 0}
    ELSE {0}

\* (mutation) the loop also ends on a page without items
ContinuesWhileItems(page) == page.lek # 0 /\ page.items # {}

\* while (lastEvaluatedKey)
Continues(page) == page.lek # 0

\* (mutation) the page that could not be read is skipped
ReadFailedSkipsPage(sw) == [sw EXCEPT !.pages = @ + 1]

\* catch (err) of the query: throw err
ReadFailed(sw) == [sw EXCEPT !.phase = "threw", !.pages = @ + 1]

\* (mutation) an event without user record counts as a failure
PageFailuresWithMissing(index, items, failing) ==
    Cardinality(failing) + Cardinality({i \in items : ~index[i].hasUser})

\* pageEnqueueFailed: the items whose lookup or enqueue threw
PageFailures(index, items, failing) == Cardinality(failing)

\* the scheduler was invoked and has captured currentYear; clockYear is
\* what new Date().getFullYear() returns from now on
SweepInit ==
    /\ AtRest
    /\ cal = NoCal
    /\ sweepLog = NoLog
    /\ redrive = NoRedrive
    /\ monitor = NoMonitor
    /\ idem = NoIdem
    /\ adds = NoAdds
    /\ sweep \in { [ phase |-> "loop",
                      index |-> idx,
                      key |-> 0,
                      pages |-> 0,
                      sent |-> [i \in 1..Len(idx) |-> 0],
                      failures |-> 0,
                      currentYear |-> 1,
                      clockYear |-> 1,
                      yearNow |-> [i \in 1..Len(idx) |-> 0] ] : idx \in Indexes }

\* the calendar year changes while the sweep is running
SweepNewYear ==
    /\ sweep.phase = "loop"
    /\ sweep.clockYear = sweep.currentYear
    /\ sweep' = [sweep EXCEPT !.clockYear = @ + 1]

\* one iteration of the do-while: the query and the loop over its items;
\* `failing` are the items whose lookup or enqueue fails
SweepPage(readFails, lek, failing) ==
    /\ sweep.phase = "loop"
    /\ LET items == PageItems(sweep.index, sweep.key)
           page == [items |-> items, lek |-> lek]
           enqueued == {i \in items : sweep.index[i].hasUser /\ i \notin failing}
       IN  /\ lek \in LastKeys(sweep.index, sweep.key)
           /\ failing \subseteq {i \in items : sweep.index[i].hasUser}
           /\ readFails => (lek = 0 /\ failing = {})
           /\ sweep' =
                IF readFails
                THEN ReadFailed(sweep)
                ELSE [sweep EXCEPT
                        !.phase = IF Continues(page) THEN "loop" ELSE "done",
                        !.key = lek,
                        !.pages = @ + 1,
                        !.sent = [i \in DOMAIN @ |->
                                    IF i \in enqueued THEN @[i] + 1 ELSE @[i]],
                        !.yearNow = [i \in DOMAIN @ |->
                                       IF i \in enqueued THEN sweep.clockYear ELSE @[i]],
                        !.failures = @ + PageFailures(sweep.index, items, failing)]

SweepNext ==
    \/ \E readFails \in BOOLEAN, lek \in 0..MaxItems, failing \in SUBSET (1..MaxItems) :
          SweepPage(readFails, lek, failing) /\ UNCHANGED <<main, cal, sweepLog, redrive, monitor, idem, adds>>
    \/ SweepNewYear /\ UNCHANGED <<main, cal, sweepLog, redrive, monitor, idem, adds>>

SweepSpec == SweepInit /\ [][SweepNext]_vars

-----------------------------------------------------------------------------
(* Scheduler invocations on the queue alone, on a clock of minutes: nothing *)
(* consumes the queue, and the log keeps the latest two invocations.        *)

FineTick ==
    /\ now + MinuteMs <= MaxTime
    /\ now' = now + MinuteMs
    /\ dedupAt' = Expire(dedupAt, now + MinuteMs)
    /\ UNCHANGED <<webhookUp, store, mainQ, dlq, pc, msg, cur, resp, hc, ok200, doneYear, lost>>

\* the latest two entries of the log
LatestTwo(log) == IF Len(log) > 2 THEN Tail(log) ELSE log

FineSweep(sent) ==
    /\ Scheduler(sent)
    /\ sweepLog' = LatestTwo(Append(sweepLog,
                        [ t |-> now,
                          year |-> YearOf(now),
                          due |-> DueEvents,
                          sent |-> sent,
                          accepted |-> {e \in sent :
                                          ~DedupHit(dedupAt, Key(e, YearOf(now)))},
                          before |-> mainQ,
                          queue |-> mainQ' ]))

FineNext ==
    \/ FineTick /\ UNCHANGED <<run, cal, sweep, sweepLog, redrive, monitor, idem, adds>>
    \/ \E sent \in SUBSET Events :
          FineSweep(sent) /\ UNCHANGED <<run, cal, sweep, redrive, monitor, idem, adds>>

FineSpec == Init /\ [][FineNext]_vars

-----------------------------------------------------------------------------
(* The redrive model: one DLQ processor invocation, one step per awaited    *)
(* call.  The messages of the two queues are counted, not told apart.       *)

\* (mutation) any answer of the webhook counts as healthy
IsHealthyAnyAnswer(answer) == answer # 0

\* checkServiceHealth: response.status === 200; a rejected fetch is answer 0
IsHealthy(answer) == answer = 200

\* (mutation) the whole DLQ is asked for
BatchSizeAll(depth) == depth

\* maxMessagesToProcess
BatchSize(depth) == Min(depth, DLQ_BATCH)

\* what happens to one received message: sent and deleted; sent under a
\* deduplication id the main queue still remembers, and deleted; the body
\* does not parse; the send throws; the delete throws
Fates == {"redriven", "deduplicated", "unparsable", "sendFailed", "deleteFailed"}

\* (mutation) the message is deleted from the DLQ before it is sent
RedrivenDeletesFirst(r, fate) ==
    CASE fate = "redriven" ->
           [r EXCEPT !.batch = @ - 1, !.sentOk = @ + 1, !.main = @ + 1,
                     !.dlq = @ - 1, !.redriven = @ + 1]
      [] fate = "deduplicated" ->
           [r EXCEPT !.batch = @ - 1, !.sentOk = @ + 1,
                     !.dlq = @ - 1, !.redriven = @ + 1]
      [] fate = "unparsable" ->
           [r EXCEPT !.batch = @ - 1, !.failed = @ + 1]
      [] fate = "sendFailed" ->
           [r EXCEPT !.batch = @ - 1, !.dlq = @ - 1, !.failed = @ + 1]
      [] fate = "deleteFailed" ->
           [r EXCEPT !.batch = @ - 1, !.sentOk = @ + 1, !.main = @ + 1,
                     !.failed = @ + 1]

\* one iteration of the loop of redriveMessages
Redriven(r, fate) ==
    CASE fate = "redriven" ->
           [r EXCEPT !.batch = @ - 1, !.sentOk = @ + 1, !.main = @ + 1,
                     !.dlq = @ - 1, !.redriven = @ + 1]
      [] fate = "deduplicated" ->
           [r EXCEPT !.batch = @ - 1, !.sentOk = @ + 1,
                     !.dlq = @ - 1, !.redriven = @ + 1]
      [] fate = "unparsable" ->
           [r EXCEPT !.batch = @ - 1, !.failed = @ + 1]
      [] fate = "sendFailed" ->
           [r EXCEPT !.batch = @ - 1, !.failed = @ + 1]
      [] fate = "deleteFailed" ->
           [r EXCEPT !.batch = @ - 1, !.sentOk = @ + 1, !.main = @ + 1,
                     !.failed = @ + 1]

\* the DLQ processor was invoked; stats is as initialised
RedriveInit ==
    /\ AtRest
    /\ cal = NoCal
    /\ sweep = NoSweep
    /\ sweepLog = NoLog
    /\ monitor = NoMonitor
    /\ idem = NoIdem
    /\ adds = NoAdds
    /\ redrive \in { [ phase |-> "count",
                        dlq0 |-> n,        \* the DLQ at the start
                        dlq |-> n,         \* the DLQ
                        main |-> 0,        \* messages added to the main queue
                        depth |-> 0,       \* stats.messagesInDLQ
                        probed |-> FALSE,
                        answer |-> 0,
                        healthy |-> FALSE, \* stats.isServiceHealthy
                        received |-> FALSE,
                        taken |-> 0,       \* messages.length
                        batch |-> 0,       \* messages not yet iterated
                        sentOk |-> 0,      \* sends that returned
                        redriven |-> 0,    \* stats.messagesRedriven
                        failed |-> 0,      \* stats.messagesFailed
                        processed |-> 0,   \* stats.messagesProcessed
                        message |-> "none",
                        statusCode |-> 0,
                        countFailed |-> FALSE,   \* getMessageCount caught an error
                        receiveFailed |-> FALSE  \* redriveMessages caught one
                      ] : n \in 0..MaxDlq }

\* (mutation) a failed depth query reports an unknown depth
MessageCountUnknown(countFails, n) == IF countFails THEN 0 - 1 ELSE n

\* getMessageCount: the approximate number of messages, 0 when the query
\* or the getQueueUrl before it throws
MessageCount(countFails, n) == IF countFails THEN 0 ELSE n

\* step 1: getMessageCount, which returns 0 when it fails
RedriveCount(countFails) ==
    /\ redrive.phase = "count"
    /\ LET depth == MessageCount(countFails, redrive.dlq)
       IN  redrive' =
             IF depth = 0
             THEN [redrive EXCEPT !.phase = "done", !.depth = depth,
                                  !.countFailed = countFails,
                                  !.statusCode = 200,
                                  !.message = "DLQ is empty"]
             ELSE [redrive EXCEPT !.phase = "probe", !.depth = depth,
                                  !.countFailed = countFails]

\* step 2: checkServiceHealth
RedriveProbe(answer) ==
    /\ redrive.phase = "probe"
    /\ redrive' =
          IF IsHealthy(answer)
          THEN [redrive EXCEPT !.phase = "receive", !.probed = TRUE,
                               !.answer = answer, !.healthy = TRUE]
          ELSE [redrive EXCEPT !.phase = "done", !.probed = TRUE,
                               !.answer = answer,
                               !.statusCode = 200,
                               !.message = "Service unhealthy, redrive skipped"]

\* step 3: ReceiveMessageCommand for up to maxMessages; when the call or a
\* getQueueUrl before it throws, redriveMessages returns its zero counts
RedriveReceive(k, receiveFails) ==
    /\ redrive.phase = "receive"
    /\ k <= Min(BatchSize(redrive.depth), redrive.dlq)
    /\ receiveFails => k = 0
    /\ redrive' =
          IF receiveFails
          THEN [redrive EXCEPT !.phase = "done",
                               !.receiveFailed = TRUE,
                               !.processed = redrive.redriven + redrive.failed,
                               !.statusCode = 200,
                               !.message = "DLQ processing completed"]
          ELSE [redrive EXCEPT !.phase = "loop", !.received = TRUE,
                               !.taken = k, !.batch = k]

RedriveOne(fate) ==
    /\ redrive.phase = "loop"
    /\ redrive.batch > 0
    /\ redrive' = Redriven(redrive, fate)

RedriveReturn ==
    /\ redrive.phase = "loop"
    /\ redrive.batch = 0
    /\ redrive' = [redrive EXCEPT !.phase = "done",
                                  !.processed = redrive.redriven + redrive.failed,
                                  !.statusCode = 200,
                                  !.message = "DLQ processing completed"]

RedriveNext ==
    \/ \E countFails \in BOOLEAN :
          RedriveCount(countFails) /\ UNCHANGED <<main, cal, sweep, sweepLog, monitor, idem, adds>>
    \/ \E answer \in {200, 503, 0} :
          RedriveProbe(answer) /\ UNCHANGED <<main, cal, sweep, sweepLog, monitor, idem, adds>>
    \/ \E k \in 0..MaxDlq, receiveFails \in BOOLEAN :
          RedriveReceive(k, receiveFails) /\ UNCHANGED <<main, cal, sweep, sweepLog, monitor, idem, adds>>
    \/ \E fate \in Fates :
          RedriveOne(fate) /\ UNCHANGED <<main, cal, sweep, sweepLog, monitor, idem, adds>>
    \/ RedriveReturn /\ UNCHANGED <<main, cal, sweep, sweepLog, monitor, idem, adds>>

RedriveSpec == RedriveInit /\ [][RedriveNext]_vars

-----------------------------------------------------------------------------
(* The monitor model: one health check invocation over the event items of  *)
(* the table, one step per awaited call.  nowMs and currentYear are taken   *)
(* once, at the top of the handler.                                         *)

MonNowMs == 2 * HC_STUCK_TIMEOUT_MS

\* sendingAttemptedAt of the items: none, or so long before nowMs
MonElapsed == {HC_STUCK_TIMEOUT_MS - 1, HC_STUCK_TIMEOUT_MS, HC_STUCK_TIMEOUT_MS + 1}

MonItems ==
    { [NewEvent("u1#birthday", st) EXCEPT !.sendingAttemptedAt = at,
                                           !.lastSentYear = y] :
        st \in {"sending", "failed", "completed"},
        at \in {NoTime} \cup {MonNowMs - el : el \in MonElapsed},
        y \in {0, YearOf(MonNowMs)} }

MonTables == UNION {[1..n -> MonItems] : n \in 0..MaxMonItems}

\* the health check was invoked
MonInit ==
    /\ AtRest
    /\ cal = NoCal
    /\ sweep = NoSweep
    /\ sweepLog = NoLog
    /\ redrive = NoRedrive
    /\ idem = NoIdem
    /\ adds = NoAdds
    /\ monitor \in { [ phase |-> "missed",
                        nowMs |-> MonNowMs,
                        currentYear |-> YearOf(MonNowMs),
                        missed |-> {},      \* missedEvents
                        status |-> "none",
                        statusCode |-> 0,
                        items0 |-> tb,      \* the table at the start
                        items |-> tb,       \* the table
                        todo |-> {},        \* stuckResult.Items not yet iterated
                        writeFailed |-> {}, \* items whose UpdateCommand threw
                        report |-> [i \in 1..Len(tb) |-> "none"] ] : tb \in MonTables }

\* (mutation) only the records that were marked count as stuck
StuckCountMarkedOnly(report) ==
    Cardinality({i \in DOMAIN report : report[i] = "marked_failed_for_retry"})

\* stuckEvents.length
StuckCount(report) == Cardinality({i \in DOMAIN report : report[i] # "none"})

StatusOf(totalIssues) ==
    IF totalIssues > 0 /\ totalIssues < 5 THEN "warning"
    ELSE IF totalIssues >= 5 THEN "critical"
    ELSE "healthy"

StatusCodeOf(status) ==
    IF status = "healthy" THEN 200 ELSE IF status = "warning" THEN 207 ELSE 500

\* catch (error) of the handler
MonError(mon) == [mon EXCEPT !.phase = "failed", !.status = "error", !.statusCode = 500]

\* CHECK 1: the missed query
MonMissedQuery(readFails) ==
    /\ monitor.phase = "missed"
    /\ monitor' =
          IF readFails THEN MonError(monitor)
          ELSE [monitor EXCEPT
                  !.phase = "query",
                  !.missed = {i \in 1..Len(monitor.items) :
                                MissedFilter(monitor.items[i], monitor.nowMs,
                                             monitor.currentYear)}]

\* CHECK 2: the stuck query
MonQuery(readFails) ==
    /\ monitor.phase = "query"
    /\ monitor' =
          IF readFails THEN MonError(monitor)
          ELSE [monitor EXCEPT
                  !.phase = "loop",
                  !.todo = {i \in 1..Len(monitor.items) : StuckFilter(monitor.items[i])}]

\* one iteration of the loop over stuckResult.Items
MonStep(writeFails) ==
    /\ monitor.phase = "loop"
    /\ monitor.todo # {}
    /\ LET i == CHOOSE x \in monitor.todo : \A y \in monitor.todo : x <= y
           item == monitor.items[i]
           timedOut == HcTimedOut(monitor.nowMs, item.sendingAttemptedAt)
       IN  /\ writeFails => timedOut
           /\ monitor' =
                IF timedOut /\ ~writeFails
                THEN [monitor EXCEPT !.todo = @ \ {i},
                                     !.items[i] = HcFailed(Upsert(item)),
                                     !.report[i] = "marked_failed_for_retry"]
                ELSE [monitor EXCEPT !.todo = @ \ {i},
                                     !.writeFailed = IF writeFails THEN @ \cup {i} ELSE @,
                                     !.report[i] = "monitoring"]

MonReturn ==
    /\ monitor.phase = "loop"
    /\ monitor.todo = {}
    /\ LET status == StatusOf(Cardinality(monitor.missed) + StuckCount(monitor.report))
       IN  monitor' = [monitor EXCEPT !.phase = "done",
                                      !.status = status,
                                      !.statusCode = StatusCodeOf(status)]

MonNext ==
    \/ \E readFails \in BOOLEAN :
          MonMissedQuery(readFails) /\ UNCHANGED <<main, cal, sweep, sweepLog, redrive, idem, adds>>
    \/ \E readFails \in BOOLEAN :
          MonQuery(readFails) /\ UNCHANGED <<main, cal, sweep, sweepLog, redrive, idem, adds>>
    \/ \E writeFails \in BOOLEAN :
          MonStep(writeFails) /\ UNCHANGED <<main, cal, sweep, sweepLog, redrive, idem, adds>>
    \/ MonReturn /\ UNCHANGED <<main, cal, sweep, sweepLog, redrive, idem, adds>>

MonSpec == MonInit /\ [][MonNext]_vars

-----------------------------------------------------------------------------
(* The key model: the MessageDeduplicationId the scheduler's enqueue gives   *)
(* to the messages of two due events and the Idempotency-Key the sender puts *)
(* on their POSTs.  A string is the sequence of its characters.             *)

UserIds == { <<"a">>, <<"b">>, <<"a", "-", "b">> }

UserEventNames == { <<"b", "i", "r", "t", "h", "d", "a", "y">>,
                    <<"a", "n", "n", "i", "v", "e", "r", "s", "a", "r", "y">> }

KeyYears == {2025, 2026}

\* a number in a template literal
RECURSIVE Decimal(_)
Decimal(n) ==
    LET digit == <<"0", "1", "2", "3", "4", "5", "6", "7", "8", "9">>[(n % 10) + 1]
    IN  IF n < 10 THEN <<digit>> ELSE Decimal(n \div 10) \o <<digit>>

\* `${a}-${b}-${c}`
Template(a, b, c) == a \o <<"-">> \o b \o <<"-">> \o c

\* flattenUserToDynamoDBItems: PK of the user's items
UserPK(id) == <<"U", "S", "E", "R", "#">> \o id

\* enqueueGreeterMessage: MessageDeduplicationId
DedupId(user, type, yearNow) == Template(user, type, Decimal(yearNow))

\* sender: the Idempotency-Key header
IdempotencyKey(message) ==
    Template(message.pk, message.eventType, Decimal(message.yearNow))

\* enqueueGreeterMessage: the message body
GreeterMessage(in) ==
    [ id |-> in.id, pk |-> UserPK(in.id), eventType |-> in.type, yearNow |-> in.yearNow ]

KeyInputs == [id : UserIds, type : UserEventNames, yearNow : KeyYears]

\* two events are due
KeyInit ==
    /\ AtRest
    /\ cal = NoCal
    /\ sweep = NoSweep
    /\ sweepLog = NoLog
    /\ redrive = NoRedrive
    /\ monitor = NoMonitor
    /\ adds = NoAdds
    /\ idem \in { [ phase |-> "due",
                     in |-> <<a, b>>,
                     dedupId |-> << <<>>, <<>> >>,
                     posts |-> << <<>>, <<>> >> ] : a \in KeyInputs, b \in KeyInputs }

\* the scheduler enqueues both
KeyEnqueue ==
    /\ idem.phase = "due"
    /\ idem' = [idem EXCEPT
                  !.phase = "queued",
                  !.dedupId = [i \in {1, 2} |->
                                 DedupId(idem.in[i].id, idem.in[i].type, idem.in[i].yearNow)]]

\* a sender invocation, the first or a later one for the message, POSTs
KeyPost(i) ==
    /\ idem.phase = "queued"
    /\ Len(idem.posts[i]) < PostCap
    /\ idem' = [idem EXCEPT
                  !.posts[i] = Append(@, IdempotencyKey(GreeterMessage(idem.in[i])))]

KeyNext ==
    \/ KeyEnqueue /\ UNCHANGED <<main, cal, sweep, sweepLog, redrive, monitor, adds>>
    \/ \E i \in {1, 2} :
          KeyPost(i) /\ UNCHANGED <<main, cal, sweep, sweepLog, redrive, monitor, adds>>

KeySpec == KeyInit /\ [][KeyNext]_vars

-----------------------------------------------------------------------------
(* The add model: two addUserEvent requests for the same user and event     *)
(* type, one step per awaited call.  A record is the number of the payload  *)
(* it was put from; 0 is no record under the key.                           *)

NoRec == 0
OldRec == 3
Requests == {1, 2}

\* (mutation) the put has no condition
PutConditionAlways(rec) == TRUE

\* ConditionExpression: attribute_not_exists(PK) AND attribute_not_exists(SK)
PutCondition(rec) == rec = NoRec

\* the handler returns or throws
Answer(a, r, code, at) ==
    [a EXCEPT !.pc[r] = "done", !.result[r] = code, !.via[r] = at]

AddInit ==
    /\ AtRest
    /\ cal = NoCal
    /\ sweep = NoSweep
    /\ sweepLog = NoLog
    /\ redrive = NoRedrive
    /\ monitor = NoMonitor
    /\ idem = NoIdem
    /\ adds \in { [ user |-> u,              \* the METADATA item exists
                     rec0 |-> old,            \* the event record at the start
                     rec |-> old,             \* the event record
                     payload |-> <<1, p>>,    \* what each request asks to store
                     pc |-> <<"user", "user">>,
                     result |-> <<"none", "none">>,
                     via |-> <<"none", "none">> ] :
                   u \in BOOLEAN, old \in {NoRec, OldRec}, p \in {1, 2} }

\* GetCommand for the METADATA item
AddGetUser(r, readFails) ==
    /\ adds.pc[r] = "user"
    /\ adds' = IF readFails THEN Answer(adds, r, "threw", "user")
               ELSE IF ~adds.user THEN Answer(adds, r, "404", "user")
               ELSE [adds EXCEPT !.pc[r] = "event"]

\* GetCommand for the event item
AddGetEvent(r, readFails) ==
    /\ adds.pc[r] = "event"
    /\ adds' = IF readFails THEN Answer(adds, r, "threw", "event")
               ELSE IF adds.rec # NoRec THEN Answer(adds, r, "409", "event")
               ELSE [adds EXCEPT !.pc[r] = "put"]

\* PutCommand with the ConditionExpression
AddPut(r, writeFails) ==
    /\ adds.pc[r] = "put"
    /\ adds' = IF writeFails THEN Answer(adds, r, "threw", "put")
               ELSE IF PutCondition(adds.rec)
               THEN [Answer(adds, r, "201", "put") EXCEPT !.rec = adds.payload[r]]
               ELSE Answer(adds, r, "409", "put")

AddNext ==
    \/ \E r \in Requests, f \in BOOLEAN :
          AddGetUser(r, f) /\ UNCHANGED <<main, cal, sweep, sweepLog, redrive, monitor, idem>>
    \/ \E r \in Requests, f \in BOOLEAN :
          AddGetEvent(r, f) /\ UNCHANGED <<main, cal, sweep, sweepLog, redrive, monitor, idem>>
    \/ \E r \in Requests, f \in BOOLEAN :
          AddPut(r, f) /\ UNCHANGED <<main, cal, sweep, sweepLog, redrive, monitor, idem>>

AddSpec == AddInit /\ [][AddNext]_vars

-----------------------------------------------------------------------------
(* Properties of the concurrent system (Spec) *)

\* C1: under any interleaving of sender invocations, redeliveries, DLQ
\* redrives, stuck-state recovery, health-check runs and scheduler sweeps,
\* at most one POST per (event, year) is answered 200.
C1_AtMostOne200 == \A k \in Keys : ok200[k] <= 1

\* the messages of an event that the queues or a running sender still hold
HasMessage(e) ==
    \/ \E m \in BagToSet(mainQ) : m.ev = e
    \/ \E m \in BagToSet(dlq) : m.ev = e
    \/ \E w \in Workers : pc[w] # "idle" /\ msg[w].ev = e

\* C2 (as a property of finite runs): a due event can always still reach
\* completed for its year.  Once the claim has set lastSentYear to the
\* current year the scheduler's filter lastSentYear < currentYear no longer
\* selects the event, so while the record is not completed and no POST of
\* that year was answered 200, a message of the event must remain queued,
\* dead-lettered or in flight: without one no step of the scheduler, the DLQ
\* processor, the health check or a sender completes that year.
C2_DueStaysDeliverable ==
    \A e \in Events :
        ( /\ store[e].exists
          /\ store[e].lastSentYear = YearOf(now)
          /\ store[e].sendingStatus # "completed"
          /\ ok200[Key(e, YearOf(now))] = 0 )
        => HasMessage(e)

\* C3 (as a property of single steps): an event was claimed and completed
\* in year Y, its advanced notifyUtc has arrived in year Y+1 and the sender
\* processes the message of year Y+1: the claim succeeds, so that the event
\* is delivered again in every successive year.
C3_ClaimedNextYear ==
    [][\A w \in Workers :
         LET item == store[msg[w].ev]
         IN  ( /\ Claim(w, FALSE)
               /\ item.sendingStatus = "completed"
               /\ item.sendingAttemptedAt # NoTime
               /\ YearOf(item.sendingAttemptedAt) = item.lastSentYear
               /\ item.notifyUtc <= now
               /\ msg[w].yearNow = item.lastSentYear + 1
               /\ msg[w].yearNow = YearOf(now)
               /\ cur[w] = item.lastSentYear )
             => pc'[w] = "post"]_vars

\* C4: once a completion was written for year Y, a sender that processes a
\* message of the running year gets a POST answered for that event only if
\* its message is of a later year than Y, also when the sender had loaded or
\* claimed the record before the completion was written.
C4_NoPostAfterCompleted ==
    [][\A w \in Workers :
         ( /\ pc[w] = "post"
           /\ pc'[w] \in {"complete", "markFailed"}
           /\ msg[w].yearNow = YearOf(now) )
         => msg[w].yearNow > doneYear[msg[w].ev]]_vars

C9_LostRaceDrops ==
    [][\A w \in Workers :
         LET item == store[msg[w].ev]
         IN  ( /\ Claim(w, FALSE)
               /\ ~( /\ item.lastSentYear = cur[w]
                      /\ item.sendingStatus \in {"absent", "pending", "failed"} ) )
             => /\ pc'[w] = "idle"
                /\ msg'[w] = NoMsg
                /\ store' = store
                /\ ok200' = ok200
                /\ mainQ' = mainQ
                /\ dlq' = dlq]_vars

\* a sender stands at the claim of a record another sender has completed
\* for the same year since it was read
C9_Witness ==
    \E w \in Workers :
        /\ pc[w] = "claim"
        /\ store[msg[w].ev].sendingStatus = "completed"
        /\ store[msg[w].ev].lastSentYear = msg[w].yearNow
        /\ cur[w] < msg[w].yearNow

C11_HeldOrStuck ==
    [][\A w \in Workers :
         LET e == msg[w].ev
             item == store[e]
         IN  /\ ( /\ Load(w, FALSE)
                  /\ item.exists
                  /\ item.sendingStatus = "sending"
                  /\ item.sendingAttemptedAt # NoTime )
                => IF now - item.sendingAttemptedAt < 5 * MinuteMs
                   THEN /\ pc'[w] = "idle"
                        /\ msg'[w] = NoMsg
                        /\ store' = store
                        /\ ok200' = ok200
                        /\ mainQ' = mainQ
                        /\ dlq' = dlq
                   ELSE /\ pc'[w] = "markStuck"
                        /\ msg'[w] = msg[w]
             /\ MarkStuck(w, FALSE)
                => /\ store'[e].sendingStatus = "failed"
                   /\ pc'[w] = "claim"]_vars

\* a sender found the record in sending state exactly 5 minutes after the
\* attempt and has gone on to the stuck recovery
C11_Witness ==
    \E w \in Workers :
        /\ pc[w] = "markStuck"
        /\ store[msg[w].ev].sendingStatus = "sending"
        /\ now - store[msg[w].ev].sendingAttemptedAt = 5 * MinuteMs

\* C12: whenever Phase 2 fails after a successful claim, by a status other
\* than 200 or by the HTTP call itself failing, the sender's next step is
\* the attempt to write sendingStatus = failed, and only then the error is
\* raised and the message goes back to the queue.
C12_FailureMarksFailed ==
    [][\A w \in Workers :
         /\ (\E a \in {503, 0} : Post(w, a)) => pc'[w] = "markFailed"
         /\ (\E f \in BOOLEAN : MarkFailed(w, f))
            => /\ pc'[w] = "idle"
               /\ (mainQ' # mainQ \/ dlq' # dlq)]_vars

\* C16: in every reachable state, also after the calendar year has rolled
\* over, no event record has sendingStatus = completed together with a
\* lastSentYear before the current calendar year.
C16_CompletedIsThisYear ==
    \A e \in Events :
        ~( /\ store[e].exists
           /\ store[e].sendingStatus = "completed"
           /\ store[e].lastSentYear < YearOf(now) )

\* C17: whenever a sender records the completion of a delivery while the
\* calendar year is Y, the record afterwards has sendingStatus = completed,
\* webhookResponseCode = 200 and lastSentYear >= Y, whatever message the
\* sender processes, a message enqueued in an earlier year included.
C17_CompletionOfThisYear ==
    [][\A w \in Workers :
         Complete(w, FALSE)
         => /\ store'[msg[w].ev].sendingStatus = "completed"
            /\ store'[msg[w].ev].webhookResponseCode = 200
            /\ store'[msg[w].ev].lastSentYear >= YearOf(now)]_vars

\* C21: a scheduler invocation never writes to an event record: every
\* record is the same before and after the sweep, whatever the sweep
\* enqueues or fails to enqueue.
C21_SweepWritesNothing ==
    [][(\E sent \in SUBSET Events : Scheduler(sent)) => store' = store]_vars

\* a sweep has enqueued the message of an event whose record is as it was
\* created
C21_Witness ==
    \E e \in Events :
        /\ QMsg(e, YearOf(now)) \in BagToSet(mainQ)
        /\ dedupAt[Key(e, YearOf(now))] = now
        /\ store[e] \in {NewEvent(e, "pending"), NewEvent(e, "absent")}

\* C30: the health check never changes to failed a record that a sender
\* holds through a fresh claim or has completed: when the health check
\* writes, the record is not completed, and if it is in sending state its
\* sendingAttemptedAt is more than 10 minutes old, whatever the senders did
\* since the record was read.
C30_MonitorWritesStuckOnly ==
    [][\A e \in Events :
         (HcMark(FALSE) /\ e \in hc /\ e \notin hc')
         => /\ store[e].sendingStatus # "completed"
            /\ store[e].sendingStatus = "sending"
                 => now - store[e].sendingAttemptedAt > 10 * 60 * 1000]_vars

\* C31: the missed list of the health check holds every event that was
\* scheduled to fire within the last 24 hours and whose notification was not
\* sent successfully, whatever its sendingStatus.
C31_MissedListComplete ==
    \A e \in Events :
        ( /\ store[e].exists
          /\ NotifyUtcIn(e, YearOf(now)) >= now - DAY_MS
          /\ NotifyUtcIn(e, YearOf(now)) <= now
          /\ ok200[Key(e, YearOf(now))] = 0 )
        => e \in MissedEvents

\* C35: an event that is not completed for the current year while its
\* lastSentYear already is the current year, so that the due query no longer
\* selects it, has a greeter message in the main queue, in a sender's hands
\* or in the DLQ: no drop by a sender and no DLQ redrive leaves it without.
\* (Checked for the events no POST of the year was answered 200 for.)
C35_ClaimedHasMessage ==
    \A e \in Events :
        ( /\ store[e].exists
          /\ store[e].lastSentYear = YearOf(now)
          /\ store[e].sendingStatus # "completed"
          /\ ok200[Key(e, YearOf(now))] = 0 )
        => HasMessage(e)

\* C36: while a sender that claimed an event has not written its terminal
\* mark, completed or failed, no other sender POSTs for the event: at most
\* one sender is between its claim and its terminal mark for an event,
\* however long the webhook call takes.
C36_OneSenderInPhase2 ==
    \A e \in Events :
        Cardinality({w \in Workers :
                       /\ msg[w].ev = e
                       /\ pc[w] \in {"post", "markFailed", "complete"}}) <= 1

\* C37: through sender processing an event's stored lastSentYear never
\* decreases and its stored notifyUtc never moves backwards: a message with
\* a yearNow lower than the stored lastSentYear never overwrites them with
\* older values.
C37_YearNeverDecreases ==
    [][\A e \in Events :
         /\ store'[e].lastSentYear >= store[e].lastSentYear
         /\ store'[e].notifyUtc >= store[e].notifyUtc]_vars

\* C38: a DLQ redrive loses no message: every message the DLQ processor
\* deletes from the DLQ is deliverable from the main queue afterwards, also
\* when its deduplication id is one the main queue accepted less than the
\* deduplication window ago.
C38_RedriveLosesNothing ==
    [][DlqProcessor
       => BagCardinality(mainQ') - BagCardinality(mainQ)
            = BagCardinality(dlq) - BagCardinality(dlq')]_vars

-----------------------------------------------------------------------------
(* Properties of sequential runs (SeqSpec) *)

Finished(r) == r.outcome \in {"returned", "threw"}

\* a finished run that met no store failure and no crash, with the webhook up
CleanRun(r) == Finished(r) /\ ~r.fault /\ r.up

\* C6: the handler is invoked twice in sequence with the same message, the
\* webhook answers 200 and the first run found the event to deliver: the two
\* runs issue exactly one POST together, and the record after the second run
\* equals the record after the first.
C6_TwiceIsOnce ==
    (run.again /\ CleanRun(run) /\ run.first.clean)
    => /\ run.first.posts + run.posts = 1
       /\ run.after = run.first.after

C6_Witness ==
    /\ run.again
    /\ CleanRun(run)
    /\ run.first.clean
    /\ run.first.posts = 1
    /\ run.after.sendingStatus = "completed"

\* C7: a run finds the record failed with lastSentYear = yearNow after the
\* webhook answered only non-200 so far, and the webhook now answers 200:
\* the run claims again, POSTs once, and ends with sendingStatus =
\* completed, webhookResponseCode = 200, lastSentYear = yearNow and exactly
\* one POST answered 200 for the event and year overall.
C7_RetryAfterFailure ==
    ( /\ CleanRun(run)
      /\ run.before.sendingStatus = "failed"
      /\ run.before.lastSentYear = run.yearNow
      /\ run.okBefore = 0 )
    => /\ run.claimed
       /\ run.posts = 1
       /\ run.oks = 1
       /\ run.outcome = "returned"
       /\ run.after.sendingStatus = "completed"
       /\ run.after.webhookResponseCode = 200
       /\ run.after.lastSentYear = run.yearNow
       /\ run.okAfter = 1

\* the run retried a record that a non-200 answer had left failed
C7_Witness ==
    /\ CleanRun(run)
    /\ run.before.sendingStatus = "failed"
    /\ run.before.failureReason = "none"
    /\ run.before.lastSentYear = run.yearNow
    /\ run.okBefore = 0
    /\ run.after.sendingStatus = "completed"

StuckReasons ==
    { "Stuck in sending state - likely webhook timeout or Lambda crash",
      "Stuck in sending state detected by health check - likely webhook timeout or Lambda crash" }

\* C8: a run loads a record in sending state whose sendingAttemptedAt is at
\* least 5 minutes old, whatever its lastSentYear, and the webhook answers
\* 200: the run marks the record failed with a 'Stuck in sending state'
\* reason, claims it again, POSTs exactly once with a 200 answer and ends
\* with sendingStatus = completed; that POST is the only one answered 200
\* for the year if the sender that got stuck was not answered 200.
C8_StuckRecovery ==
    ( /\ CleanRun(run)
      /\ run.before.exists
      /\ run.before.sendingStatus = "sending"
      /\ run.before.sendingAttemptedAt # NoTime
      /\ run.t - run.before.sendingAttemptedAt >= 5 * MinuteMs )
    => /\ run.marked
       /\ run.claimed
       /\ run.posts = 1
       /\ run.oks = 1
       /\ run.outcome = "returned"
       /\ run.after.sendingStatus = "completed"
       /\ run.after.lastSentYear = run.yearNow
       /\ run.after.markedFailedAt
       /\ run.after.failureReason \in StuckReasons
       /\ run.okBefore = 0 => run.okAfter = 1

\* the recovered record was stuck with the previous year's lastSentYear
C8_Witness ==
    /\ CleanRun(run)
    /\ run.before.sendingStatus = "sending"
    /\ run.before.sendingAttemptedAt # NoTime
    /\ run.t - run.before.sendingAttemptedAt >= 5 * MinuteMs
    /\ run.before.lastSentYear = run.yearNow - 1
    /\ run.after.sendingStatus = "completed"

\* C13: the Phase-3 completion write fails after a 200 answer: the handler
\* does not raise but returns, the message is deleted, and the record stays
\* in sendingStatus = sending with lastSentYear = yearNow.
C13_CompletionFailureSwallowed ==
    [][(SeqComplete(TRUE) /\ resp[1] = 200)
       => /\ pc'[1] = "idle"
          /\ msg'[1] = NoMsg
          /\ mainQ' = mainQ
          /\ dlq' = dlq
          /\ run'.outcome = "returned"
          /\ store' = store
          /\ store'[msg[1].ev].sendingStatus = "sending"
          /\ store'[msg[1].ev].lastSentYear = msg[1].yearNow]_vars

\* a run was answered 200, failed to write the completion and returned
C13_Witness ==
    /\ run.outcome = "returned"
    /\ run.fault
    /\ run.claimed
    /\ run.oks = 1
    /\ run.after.sendingStatus = "sending"
    /\ run.after.lastSentYear = run.yearNow

\* C14: after a completion write that failed following a 200 answer, every
\* later run on a message of the same event and year, before or after the
\* stale sending record was promoted to failed, drops the message without
\* another POST.
C14_NoPostAfterLostCompletion ==
    [][\A a \in {200, 503, 0} :
         SeqPost(a) => Key(msg[1].ev, msg[1].yearNow) \notin lost]_vars

-----------------------------------------------------------------------------
(* Properties of runs with deleteUser (DelSpec) *)

\* C15: the event record no longer exists when the message is processed:
\* the sender drops the message, with no POST, no write to the store and no
\* error raised.
C15_MissingIsDropped ==
    (Finished(run) /\ ~run.fault /\ ~run.before.exists)
    => /\ run.outcome = "returned"
       /\ run.posts = 0
       /\ ~run.claimed
       /\ ~run.marked
       /\ run.after = NoItem
       /\ run.okAfter = run.okBefore

\* a run has returned on the message of a deleted event
C15_Witness ==
    /\ run.outcome = "returned"
    /\ ~run.fault
    /\ ~run.before.exists
    /\ run.before.sendingStatus = "absent"

\* C39: once deleteUser has deleted an event record, no write of a sender
\* or of the health check creates a record under its key again: a terminal
\* mark by a sender that claimed the event before the deletion, or by a
\* health check that read it before, leaves no partial record in the table.
C39_NoPartialRecord ==
    \A e \in Events : store[e].exists => store[e].notifyUtc # NoTime

-----------------------------------------------------------------------------
(* Properties of the calendar model (CalSpec) *)

\* C18: every successful claim strictly increases the event's notifyUtc,
\* and after the completed delivery notifyUtc is strictly later than the
\* delivery instant and is the event's local month, day and time in the
\* local year after the year of the delivery, for every timezone offset,
\* also when the local firing date lies in another UTC calendar year than
\* the UTC firing instant (stated for an event whose first notifyUtc was
\* later than its creation).
C18_ClaimAdvances ==
    [][(CalDeliver /\ cal.first > cal.createdAt)
       => /\ cal'.notifyUtc > cal.notifyUtc
          /\ cal'.notifyUtc > cal.t
          /\ cal'.notifyUtc + cal.off
                = (LocalYear(cal.t, cal.off) + 1) * CalYearLen + cal.pos]_vars

\* C19: computeNotifyUtc returns an instant strictly later than the
\* reference instant: when the candidate of the reference's year is equal
\* to the reference or earlier, the result is the next year's candidate.
C19_StrictlyLater ==
    cal.phase \in {"pending", "completed"} => cal.first > cal.createdAt

-----------------------------------------------------------------------------
(* Properties of the sweep model (SweepSpec) *)

\* C20: in one scheduler invocation with no read, lookup or enqueue
\* failure, every event of the due set, over all pages, whose user record
\* exists is enqueued exactly once, none is skipped, nothing else is
\* enqueued, and the loop ends when the page cursor is exhausted and not
\* before.
C20_EachDueOnce ==
    /\ (sweep.phase = "done" /\ sweep.failures = 0)
       => \A i \in 1..Len(sweep.index) :
             sweep.sent[i] = IF sweep.index[i].unsent /\ sweep.index[i].hasUser
                             THEN 1 ELSE 0
    /\ sweep.phase = "done" => sweep.key = 0
    /\ (sweep.phase = "loop" /\ sweep.pages > 0) => sweep.key # 0

\* a sweep of two pages has ended; its first page held no item that passed
\* the filter, its second page held a due event, which was enqueued
C20_Witness ==
    /\ sweep.phase = "done"
    /\ sweep.failures = 0
    /\ sweep.pages >= 2
    /\ Len(sweep.index) > PageLimit
    /\ \A i \in 1..PageLimit : ~sweep.index[i].unsent
    /\ \E i \in 1..Len(sweep.index) : sweep.sent[i] = 1

\* C22: every message enqueued during a sweep carries yearNow, and in its
\* deduplication id the same year, equal to the currentYear captured at the
\* start of the sweep, also when the calendar year changes while the sweep
\* is running.
C22_YearOfTheSweep ==
    \A i \in 1..Len(sweep.index) :
        sweep.sent[i] > 0 => sweep.yearNow[i] = sweep.currentYear

\* C24: a failure of the user lookup or of the enqueue for one due event
\* adds one to the failure counter and does not stop the sweep: the other
\* events of the page are enqueued and the later pages are read; an event
\* whose user record is missing is skipped and not counted as a failure.
C24_FailureIsCountedAndSkipped ==
    [][\A lek \in 0..MaxItems, failing \in SUBSET (1..MaxItems) :
         SweepPage(FALSE, lek, failing)
         => LET items == PageItems(sweep.index, sweep.key)
            IN  /\ sweep'.failures = sweep.failures + Cardinality(failing)
                /\ \A i \in items :
                     sweep'.sent[i] =
                        IF sweep.index[i].hasUser /\ i \notin failing
                        THEN sweep.sent[i] + 1 ELSE sweep.sent[i]
                /\ sweep.key + PageLimit < Len(sweep.index)
                     => sweep'.phase = "loop"]_vars

\* a sweep has ended: on its first page one event failed and one had no
\* user record, one failure was counted, and an event of the second page
\* was enqueued
C24_Witness ==
    /\ sweep.phase = "done"
    /\ sweep.failures = 1
    /\ Len(sweep.index) > PageLimit
    /\ \E i \in 1..PageLimit :
         sweep.index[i].unsent /\ sweep.index[i].hasUser /\ sweep.sent[i] = 0
    /\ \E i \in 1..PageLimit :
         sweep.index[i].unsent /\ ~sweep.index[i].hasUser
    /\ \E i \in (PageLimit + 1)..Len(sweep.index) : sweep.sent[i] = 1

\* C25: when reading a page of due events fails the invocation ends with
\* the error: no further page is read or processed, and what the earlier
\* pages enqueued stays enqueued.
C25_ReadFailureAborts ==
    [][/\ sweep.phase = "threw" => sweep' = sweep
       /\ \A lek \in 0..MaxItems, failing \in SUBSET (1..MaxItems) :
            SweepPage(TRUE, lek, failing)
            => /\ sweep'.phase = "threw"
               /\ sweep'.sent = sweep.sent
               /\ sweep'.key = sweep.key
               /\ sweep'.failures = sweep.failures]_vars

\* the read of the second page failed after the first page had enqueued
C25_Witness ==
    /\ sweep.phase = "threw"
    /\ sweep.pages = 2
    /\ \E i \in 1..Len(sweep.index) : sweep.sent[i] = 1

-----------------------------------------------------------------------------
(* Properties of scheduler invocations on the queue (FineSpec) *)

\* the latest two sweeps found the same events due and enqueued each of
\* them without failure; the queue accepted the messages of the first, and
\* the second ran less than the deduplication window later
SameDueWithinWindow ==
    /\ Len(sweepLog) = 2
    /\ sweepLog[2].t - sweepLog[1].t < DEDUP_WINDOW_MS
    /\ sweepLog[1].due = sweepLog[2].due
    /\ sweepLog[1].sent = sweepLog[1].due
    /\ sweepLog[1].accepted = sweepLog[1].due
    /\ sweepLog[2].sent = sweepLog[2].due

\* the second sweep left the queue as the first had left it; on a queue that
\* was empty that is one message for each due event
AsOneSweep ==
    /\ sweepLog[2].queue = sweepLog[1].queue
    /\ sweepLog[1].before = EmptyBag
         => /\ BagCardinality(sweepLog[2].queue) = Cardinality(sweepLog[1].due)
            /\ \A e \in sweepLog[1].due :
                 \E m \in BagToSet(sweepLog[2].queue) : m.ev = e

\* C23 (as stated): two sweeps within the deduplication window over the
\* same due set leave the main queue as a single sweep leaves it, with one
\* message for each due event.
C23_TwoSweepsAsOne == SameDueWithinWindow => AsOneSweep

\* C23 (amended): two sweeps within the deduplication window and within the
\* same calendar year over the same due set leave the main queue as a single
\* sweep leaves it, with one message for each due event.
C23_TwoSweepsOfOneYear ==
    (SameDueWithinWindow /\ sweepLog[1].year = sweepLog[2].year) => AsOneSweep

\* a second sweep ran later than the first, inside the window and the year,
\* on a queue that was empty before the first
C23_Witness ==
    /\ SameDueWithinWindow
    /\ sweepLog[1].year = sweepLog[2].year
    /\ sweepLog[1].t < sweepLog[2].t
    /\ sweepLog[1].due # {}
    /\ sweepLog[1].before = EmptyBag

-----------------------------------------------------------------------------
(* Properties of a DLQ processor invocation (RedriveSpec) *)

\* C26: a received message is deleted from the DLQ only after its copy was
\* sent to the main queue; when the send or the delete fails the message
\* stays in the DLQ, the failure counter is incremented and the loop goes
\* on with the next message.
C26_DeleteAfterSend ==
    redrive.received
    => /\ redrive.dlq0 - redrive.dlq = redrive.redriven
       /\ redrive.redriven <= redrive.sentOk
       /\ redrive.redriven + redrive.failed = redrive.taken - redrive.batch
       /\ redrive.phase = "done" => redrive.batch = 0

\* a run ended in which a send failed, a delete failed after its send, and
\* messages were redriven
C26_Witness ==
    /\ redrive.phase = "done"
    /\ redrive.received
    /\ redrive.redriven >= 1
    /\ redrive.failed >= 2
    /\ redrive.sentOk = redrive.redriven + 1
    /\ redrive.dlq = redrive.dlq0 - redrive.redriven

\* C27: when the health probe is not answered 200, or the probe call fails,
\* the DLQ processor receives, sends and deletes nothing: the DLQ and the
\* main queue are as they were.
C27_UnhealthySkips ==
    (redrive.probed /\ redrive.answer # 200)
    => /\ redrive.phase = "done"
       /\ ~redrive.received
       /\ redrive.sentOk = 0
       /\ redrive.dlq = redrive.dlq0
       /\ redrive.main = 0

\* the probe of a run on a non-empty DLQ was answered 503
C27_Witness ==
    /\ redrive.phase = "done"
    /\ redrive.probed
    /\ redrive.answer = 503
    /\ redrive.dlq0 > 0
    /\ redrive.message = "Service unhealthy, redrive skipped"

\* C28: with a DLQ depth of zero the processor returns without probing the
\* webhook and without receiving; a run redrives at most 10 messages and
\* reports messagesProcessed = messagesRedriven + messagesFailed.
C28_EmptyReturnsAndBatchOfTen ==
    /\ (redrive.phase # "count" /\ redrive.depth = 0)
         => /\ redrive.phase = "done"
            /\ ~redrive.probed
            /\ ~redrive.received
    /\ redrive.redriven <= 10
    /\ redrive.phase = "done"
         => redrive.processed = redrive.redriven + redrive.failed

\* a run on a DLQ of more than 10 messages ended with 10 redriven
C28_Witness ==
    /\ redrive.phase = "done"
    /\ redrive.depth > 10
    /\ redrive.redriven = 10
    /\ redrive.processed = 10

\* C40: a failure of the DLQ depth query is not reported as an error:
\* getMessageCount returns 0, so the processor answers 200 "DLQ is empty"
\* and leaves both queues as they were, also when the DLQ holds messages;
\* a failure of the DLQ receive call gives a 200 answer with zero redriven
\* and zero failed.
C40_QueryFailuresAnswer200 ==
    /\ (redrive.phase # "count" /\ redrive.countFailed)
         => /\ redrive.phase = "done"
            /\ redrive.depth = 0
            /\ redrive.statusCode = 200
            /\ redrive.message = "DLQ is empty"
            /\ ~redrive.probed
            /\ redrive.dlq = redrive.dlq0
            /\ redrive.main = 0
    /\ redrive.receiveFailed
         => /\ redrive.phase = "done"
            /\ redrive.statusCode = 200
            /\ redrive.message = "DLQ processing completed"
            /\ redrive.redriven = 0
            /\ redrive.failed = 0
            /\ redrive.processed = 0
            /\ redrive.dlq = redrive.dlq0
            /\ redrive.main = 0

\* the depth query of a run on a DLQ that holds messages failed, and the
\* run answered "DLQ is empty"
C40_Witness ==
    /\ redrive.phase = "done"
    /\ redrive.countFailed
    /\ redrive.dlq0 > 0
    /\ redrive.dlq = redrive.dlq0
    /\ redrive.message = "DLQ is empty"

-----------------------------------------------------------------------------
(* Properties of a health check invocation (MonSpec) *)

\* C29: for a record in sending state that carries a sendingAttemptedAt, the
\* health check sets sendingStatus to failed and reports
\* marked_failed_for_retry exactly when more than 10 minutes have elapsed
\* and the write succeeds; otherwise it leaves the record as it is and
\* reports monitoring.
C29_MarkedWhenOverTenMinutes ==
    \A i \in 1..Len(monitor.items0) :
        LET before == monitor.items0[i]
        IN  ( /\ monitor.phase \in {"loop", "done"}
              /\ i \notin monitor.todo
              /\ before.sendingStatus = "sending"
              /\ before.sendingAttemptedAt # NoTime )
            => IF /\ monitor.nowMs - before.sendingAttemptedAt > 10 * 60 * 1000
                  /\ i \notin monitor.writeFailed
               THEN /\ monitor.items[i].sendingStatus = "failed"
                    /\ monitor.report[i] = "marked_failed_for_retry"
               ELSE /\ monitor.items[i] = before
                    /\ monitor.report[i] = "monitoring"

\* a health check ended that found one record in sending state for exactly
\* 10 minutes and left it, and one for a millisecond more and marked it
C29_Witness ==
    /\ monitor.phase = "done"
    /\ \E i, j \in 1..Len(monitor.items0) :
         /\ monitor.items0[i].sendingStatus = "sending"
         /\ monitor.items0[i].sendingAttemptedAt = monitor.nowMs - 10 * 60 * 1000
         /\ monitor.report[i] = "monitoring"
         /\ monitor.items[i] = monitor.items0[i]
         /\ monitor.items0[j].sendingStatus = "sending"
         /\ monitor.items0[j].sendingAttemptedAt = monitor.nowMs - 10 * 60 * 1000 - 1
         /\ monitor.report[j] = "marked_failed_for_retry"
         /\ monitor.items[j].sendingStatus = "failed"

\* the records the stuck query of the run found: in sending state, with a
\* sendingAttemptedAt
FoundSending ==
    {i \in 1..Len(monitor.items0) :
        /\ monitor.items0[i].sendingStatus = "sending"
        /\ monitor.items0[i].sendingAttemptedAt # NoTime}

-----------------------------------------------------------------------------
(* Properties of the keys (KeySpec) *)

\* C33: the Idempotency-Key of every POST for event E with yearNow Y is
\* determined by (E, Y) alone: a retry carries the same key, another event
\* or year a different one, and the key is the same string as the
\* deduplication id the enqueue used for (E, Y).
C33_KeyOfEventAndYear ==
    /\ \A i \in {1, 2} : \A n, m \in 1..Len(idem.posts[i]) :
         idem.posts[i][n] = idem.posts[i][m]
    /\ (Len(idem.posts[1]) > 0 /\ Len(idem.posts[2]) > 0)
         => (idem.posts[1][1] = idem.posts[2][1] <=> idem.in[1] = idem.in[2])
    /\ \A i \in {1, 2} : \A n \in 1..Len(idem.posts[i]) :
         idem.posts[i][n] = idem.dedupId[i]

-----------------------------------------------------------------------------
(* Properties of addUserEvent (AddSpec) *)

\* C34: at most one event record exists per user and event type: of two
\* concurrent addUserEvent requests for the same user and type exactly one
\* is answered 201 and the other 409, and a request for a type that already
\* has a record is answered 409 and leaves the record as it is.
C34_OneRecordPerType ==
    /\ Cardinality({r \in Requests : adds.result[r] = "201"}) <= 1
    /\ \A r \in Requests : adds.result[r] = "201" => adds.rec = adds.payload[r]
    /\ (adds.rec0 = NoRec /\ \A r \in Requests : adds.result[r] \in {"201", "409"})
         => \E r \in Requests :
              /\ adds.result[r] = "201"
              /\ \A q \in Requests \ {r} : adds.result[q] = "409"
    /\ adds.rec0 # NoRec
         => /\ adds.rec = adds.rec0
            /\ \A r \in Requests :
                 adds.result[r] \in {"none", "409", "404", "threw"}
            /\ \A r \in Requests :
                 (adds.user /\ adds.result[r] \notin {"none", "threw"})
                 => adds.result[r] = "409"

\* both requests found no record and reached the put: one was answered 201,
\* the other 409 by the condition of the put, and the record is the first's
C34_Witness ==
    \E r, q \in Requests :
        /\ adds.result[r] = "201"
        /\ adds.result[q] = "409"
        /\ adds.via[q] = "put"
        /\ adds.payload[q] # adds.payload[r]
        /\ adds.rec = adds.payload[r]

====
